---- MODULE Spec2Model ----
(***************************************************************************)
(* The HTTP adapter of the user service (src/ports/httpapi/mod.rs): the    *)
(* route table, the two handlers get_user and post_user, the extractors    *)
(* that guard them and the translation of AppError into a response.  The   *)
(* command and query handlers and the repositories behind the container    *)
(* are modelled from their contracts.  Requests are served by concurrent   *)
(* tasks; a handler suspends at its .await while the repository call runs. *)
(***************************************************************************)
EXTENDS Integers, Sequences, FiniteSets

(* ---------------------------------------------------------------- bounds *)

\* Rows the store may hold: the storage sequence stops handing out ids there.
MaxUsers == 2

\* The request tasks that may be in flight together.
Tasks == {"t1", "t2"}

(* ------------------------------------------------------------- constants *)

\* http::StatusCode values the adapter and the framework answer with.
OK == 200
CREATED == 201
BAD_REQUEST == 400
NOT_FOUND == 404
METHOD_NOT_ALLOWED == 405
UNSUPPORTED_MEDIA_TYPE == 415
UNPROCESSABLE_ENTITY == 422
INTERNAL_SERVER_ERROR == 500

Nil == "nil"

(* ------------------------------------------------------------ the domain *)

\* AppError: the closed set of domain errors.
AppError == {"NotFound", "InternalError"}

NoUser == [id |-> 0, username |-> "", password |-> ""]

\* Result<User, AppError> of a handler's execute.
Success(u) == [ok |-> TRUE, user |-> u, err |-> ""]
Failure(e) == [ok |-> FALSE, user |-> NoUser, err |-> e]
NoResult == [ok |-> FALSE, user |-> NoUser, err |-> Nil]

Usernames(store) == {r.username : r \in store}
Ids(store) == {r.id : r \in store}

\* Read contract: the row with this id, NotFound when no row matches,
\* InternalError on any other storage failure.
find_by_id(store, id, fail) ==
    IF fail THEN Failure("InternalError")
    ELSE IF id \notin Ids(store) THEN Failure("NotFound")
    ELSE Success(CHOOSE r \in store : r.id = id)

\* Write contract: InternalError when the username is already stored or the
\* storage layer fails; otherwise one new row under the next storage id.
save(store, nextId, username, password, fail) ==
    IF fail \/ username \in Usernames(store)
    THEN [result |-> Failure("InternalError"), users |-> store, seq |-> nextId]
    ELSE LET row == [id |-> nextId, username |-> username, password |-> password]
         IN [result |-> Success(row), users |-> store \cup {row}, seq |-> nextId + 1]

\* GetUser.execute: delegates to the read contract.
GetUserExecute(store, id, fail) == find_by_id(store, id, fail)

\* CreateUser.execute: delegates to the write contract.
CreateUserExecute(store, nextId, username, password, fail) ==
    save(store, nextId, username, password, fail)

(* ------------------------------------------------------- text and numbers *)

DigitChars == <<"0", "1", "2", "3", "4", "5", "6", "7", "8", "9">>

IsDigit(c) == \E i \in 1..Len(DigitChars) : DigitChars[i] = c

DigitVal(c) == (CHOOSE i \in 1..Len(DigitChars) : DigitChars[i] = c) - 1

RECURSIVE DigitsVal(_)
DigitsVal(s) ==
    IF s = <<>> THEN 0
    ELSE DigitsVal(SubSeq(s, 1, Len(s) - 1)) * 10 + DigitVal(s[Len(s)])

\* i64::from_str on a path segment given as its characters: an optional sign,
\* then one or more decimal digits.  (No segment of the model is long enough
\* to leave the i64 range.)
ParseI64(seg) ==
    LET signed == seg # <<>> /\ seg[1] \in {"-", "+"}
        digits == IF signed THEN Tail(seg) ELSE seg
    IN IF digits = <<>> \/ \E i \in 1..Len(digits) : ~IsDigit(digits[i])
       THEN [ok |-> FALSE, val |-> 0]
       ELSE [ok |-> TRUE,
             val |-> IF signed /\ seg[1] = "-" THEN 0 - DigitsVal(digits)
                     ELSE DigitsVal(digits)]

\* An integer written in decimal, as serde_json writes an i64.
RECURSIVE NatToStr(_)
NatToStr(n) ==
    IF n < 10 THEN DigitChars[n + 1]
    ELSE NatToStr(n \div 10) \o DigitChars[(n % 10) + 1]

IntToStr(n) == IF n < 0 THEN "-" \o NatToStr(0 - n) ELSE NatToStr(n)

(* ------------------------------------------------------ requests on wire *)

\* One member of a JSON object: its name, whether the value is a JSON string,
\* and the value's text.
Str(name, s) == [name |-> name, isString |-> TRUE, text |-> s]
Num(name, n) == [name |-> name, isString |-> FALSE, text |-> IntToStr(n)]

\* A request body: syntactically valid JSON or not, and the members of the
\* object it holds.
JsonBody(fields) == [wellformed |-> TRUE, fields |-> fields]
Malformed == [wellformed |-> FALSE, fields |-> <<>>]
NoBody == [wellformed |-> FALSE, fields |-> <<>>]

\* A path is its segments; a segment is its characters, a literal word
\* counting as one.
UsersSeg == <<"users">>
Request(method, path, ctype, body) ==
    [method |-> method, path |-> path, ctype |-> ctype, body |-> body]
NoRequest == Request(Nil, <<>>, FALSE, NoBody)

\* The {id} segments requests carry: ids of rows, ids of no row, and text
\* that is no integer.
IdSegments ==
    {<<"1">>, <<"2">>, <<"9">>, <<"-", "1">>, <<"0", "2">>,
     <<"a">>, <<"1", "x">>, <<"-">>}

Payloads ==
    {<<"alice", "p">>, <<"alice", "q">>, <<"bob", "p">>, <<"carol", "p">>}

ValidBodies ==
    {JsonBody(<<Str("username", c[1]), Str("password", c[2])>>) : c \in Payloads}

BadBodies ==
    {Malformed,
     JsonBody(<<>>),
     JsonBody(<<Str("username", "alice")>>),
     JsonBody(<<Str("password", "p")>>),
     JsonBody(<<Num("username", 7), Str("password", "p")>>),
     JsonBody(<<Str("username", "bob"), Num("password", 7)>>)}

Requests ==
    {Request("GET", <<UsersSeg, s>>, FALSE, NoBody) : s \in IdSegments}
    \cup {Request("HEAD", <<UsersSeg, s>>, FALSE, NoBody) : s \in {<<"1">>, <<"9">>}}
    \cup {Request("POST", <<UsersSeg>>, TRUE, b) : b \in ValidBodies \cup BadBodies}
    \cup {Request("POST", <<UsersSeg>>, FALSE, b) :
            b \in {JsonBody(<<Str("username", "bob"), Str("password", "p")>>)}}
    \cup {Request("GET", <<<<"not-found">>>>, FALSE, NoBody),
          Request("POST", <<<<"not-found">>>>, TRUE, Malformed),
          Request("GET", <<UsersSeg>>, FALSE, NoBody),
          Request("GET", <<UsersSeg, <<"1">>, <<"posts">>>>, FALSE, NoBody),
          Request("DELETE", <<UsersSeg, <<"1">>>>, FALSE, NoBody),
          Request("POST", <<UsersSeg, <<"1">>>>, TRUE, Malformed),
          Request("PUT", <<UsersSeg>>, TRUE, Malformed)}

(* ------------------------------------------------------------ responses *)

Response(status, ctype, json, text) ==
    [status |-> status, content_type |-> ctype, json |-> json, text |-> text]
NoResponse == Response(0, "", <<>>, "")

\* (status, Json(value)).into_response()
JsonResponse(status, json) == Response(status, "application/json", json, "")
\* A rejection of the framework: a status and a line of plain text.
TextResponse(status, text) == Response(status, "text/plain", <<>>, text)
\* A bare status: empty body.
StatusResponse(status) == Response(status, "", <<>>, "")

\* struct ErrorResponse { message } serialised.
ErrorResponse(message) == <<Str("message", message)>>

\* The GetUser value serialised: {"id":..,"username":..,"password":..}.
GetUser(u) ==
    <<Num("id", u.id), Str("username", u.username), Str("password", u.password)>>

\* A mapping with its two arms crossed.
into_response_crossed(e) ==
    IF e = "NotFound"
    THEN JsonResponse(INTERNAL_SERVER_ERROR, ErrorResponse("internal server error"))
    ELSE JsonResponse(NOT_FOUND, ErrorResponse("not found"))

\* impl IntoResponse for AppError
into_response(e) ==
    IF e = "NotFound"
    THEN JsonResponse(NOT_FOUND, ErrorResponse("not found"))
    ELSE JsonResponse(INTERNAL_SERVER_ERROR, ErrorResponse("internal server error"))

(* -------------------------------------------------------------- routing *)

\* A route table that looks at the path alone: any method reaches the handler.
get_router_any_method(method, path) ==
    IF Len(path) = 2 /\ path[1] = UsersSeg /\ path[2] # <<>> THEN "get_user"
    ELSE IF Len(path) = 1 /\ path[1] = UsersSeg THEN "post_user"
    ELSE "not_found"

\* get_router: the route table.  A path that matches no route goes to the
\* fallback (404); a path that matches a route whose method router holds no
\* handler for the method is answered 405; routing::get also serves HEAD.
get_router(method, path) ==
    IF Len(path) = 2 /\ path[1] = UsersSeg /\ path[2] # <<>>
    THEN IF method \in {"GET", "HEAD"} THEN "get_user" ELSE "method_not_allowed"
    ELSE IF Len(path) = 1 /\ path[1] = UsersSeg
    THEN IF method = "POST" THEN "post_user" ELSE "method_not_allowed"
    ELSE "not_found"

\* A path extractor whose rejection is answered as the domain's NotFound.
PathI64_as_not_found(path) ==
    LET p == ParseI64(path[2])
    IN IF p.ok THEN [ok |-> TRUE, id |-> p.val, rejection |-> NoResponse]
       ELSE [ok |-> FALSE, id |-> 0, rejection |-> into_response("NotFound")]

\* Path(id): Path<i64>: the segment parsed, or the rejection.
PathI64(path) ==
    LET p == ParseI64(path[2])
    IN IF p.ok THEN [ok |-> TRUE, id |-> p.val, rejection |-> NoResponse]
       ELSE [ok |-> FALSE, id |-> 0,
             rejection |-> TextResponse(BAD_REQUEST, "Invalid URL")]

HasString(fields, name) ==
    \E i \in 1..Len(fields) : fields[i].name = name /\ fields[i].isString
HasField(fields, name) == \E i \in 1..Len(fields) : fields[i].name = name
FieldText(fields, name) ==
    fields[CHOOSE i \in 1..Len(fields) : fields[i].name = name].text

\* A request type whose fields default to the empty string when absent or
\* unreadable, so that every well-formed body reaches the handler.
CreateUserRequest_defaults(r) ==
    IF ~r.ctype
    THEN [ok |-> FALSE, username |-> "", password |-> "",
          rejection |-> TextResponse(UNSUPPORTED_MEDIA_TYPE, "Expected JSON content type")]
    ELSE IF ~r.body.wellformed
    THEN [ok |-> FALSE, username |-> "", password |-> "",
          rejection |-> TextResponse(BAD_REQUEST, "Failed to parse JSON")]
    ELSE [ok |-> TRUE,
          username |-> IF HasString(r.body.fields, "username")
                       THEN FieldText(r.body.fields, "username") ELSE "",
          password |-> IF HasString(r.body.fields, "password")
                       THEN FieldText(r.body.fields, "password") ELSE "",
          rejection |-> NoResponse]

\* Json(payload): Json<CreateUserRequest>: the content type is checked, then
\* the bytes are parsed, then the two required string fields are read.
CreateUserRequest(r) ==
    IF ~r.ctype
       THEN [ok |-> FALSE, username |-> "", password |-> "",
             rejection |-> TextResponse(UNSUPPORTED_MEDIA_TYPE, "Expected JSON content type")]
       ELSE IF ~r.body.wellformed
       THEN [ok |-> FALSE, username |-> "", password |-> "",
             rejection |-> TextResponse(BAD_REQUEST, "Failed to parse JSON")]
       ELSE IF ~(HasString(r.body.fields, "username") /\ HasString(r.body.fields, "password"))
       THEN [ok |-> FALSE, username |-> "", password |-> "",
             rejection |-> TextResponse(UNPROCESSABLE_ENTITY, "Failed to deserialize JSON")]
       ELSE [ok |-> TRUE,
             username |-> FieldText(r.body.fields, "username"),
             password |-> FieldText(r.body.fields, "password"),
             rejection |-> NoResponse]

(* -------------------------------------------------------- the handlers *)

\* What a handler was invoked with, once its extractors succeeded.
Call(op, id, username, password) ==
    [op |-> op, id |-> id, username |-> username, password |-> password]
NoCall == Call(Nil, 0, "", "")

\* A get_user that takes the row out of the store as it reads it.
get_user_await_takes(call, store, nextId, fail) ==
    [result |-> GetUserExecute(store, call.id, fail),
     users |-> IF fail THEN store ELSE {r \in store : r.id # call.id},
     seq |-> nextId]

\* get_user up to its .await: container.get_user_query.execute(id).
get_user_await(call, store, nextId, fail) ==
    [result |-> GetUserExecute(store, call.id, fail), users |-> store, seq |-> nextId]

\* post_user up to its .await:
\* container.create_user_command.execute(payload.username, payload.password).
post_user_await(call, store, nextId, fail) ==
    CreateUserExecute(store, nextId, call.username, call.password, fail)

\* get_user answering with the password where the username belongs.
get_user_wrong_field(result) ==
    IF result.ok
    THEN JsonResponse(OK, GetUser([result.user EXCEPT !.username = result.user.password]))
    ELSE into_response(result.err)

\* get_user after the .await: `?` hands an error to into_response, a user is
\* answered as Json(user) with status 200.
get_user(result) ==
    IF result.ok THEN JsonResponse(OK, GetUser(result.user))
    ELSE into_response(result.err)

\* post_user without its `?`: the error is dropped and 201 answered.
post_user_drops_error(result) == StatusResponse(CREATED)

\* post_user translating the error itself, as a conflict.
post_user_conflict(result) ==
    IF result.ok THEN StatusResponse(CREATED)
    ELSE JsonResponse(409, ErrorResponse("conflict"))

\* post_user after the .await: `?` hands an error to into_response, success
\* is the bare status 201; the created user is dropped.
post_user(result) ==
    IF result.ok THEN StatusResponse(CREATED)
    ELSE into_response(result.err)

\* The body of the answer to a HEAD request is removed by the method router.
StripBody(method, resp) ==
    IF method = "HEAD" THEN [resp EXCEPT !.json = <<>>, !.text = ""] ELSE resp

(* ------------------------------------------------------------ the state *)

VARIABLES
    users,      \* the rows the storage collaborator holds
    seq,        \* the id the storage hands to the next new row
    pc,         \* per task: idle, awaiting, returned, done
    req,        \* per task: the request it serves
    call,       \* per task: the handler invocation, NoCall when none was made
    result,     \* per task: what the handler's execute returned
    resp,       \* per task: the response written
    obs,        \* per task: what the run observed (history, read by no action's guard)
    created     \* history: (id, username) of every POST answered 201

vars == <<users, seq, pc, req, call, result, resp, obs, created>>

\* known: the username a 201 answer created the requested id with, if any;
\* peer: another task was awaiting a save of the same username at dispatch;
\* fault: the storage layer failed during the repository call;
\* hit: the id (get) or username (post) was stored when the call ran;
\* ver: the number of rows written before the call ran;
\* delta: the rows the call added or removed.
NoObs ==
    [known |-> "", peer |-> FALSE, fault |-> FALSE, hit |-> FALSE,
     ver |-> 0, delta |-> {}]

Init ==
    /\ users = {}
    /\ seq = 1
    /\ pc = [t \in Tasks |-> "idle"]
    /\ req = [t \in Tasks |-> NoRequest]
    /\ call = [t \in Tasks |-> NoCall]
    /\ result = [t \in Tasks |-> NoResult]
    /\ resp = [t \in Tasks |-> NoResponse]
    /\ obs = [t \in Tasks |-> NoObs]
    /\ created = {}

\* The extractors' verdict on a routed request.
Extracted(r) ==
    IF get_router(r.method, r.path) = "get_user"
    THEN LET p == PathI64(r.path)
         IN [ok |-> p.ok, call |-> Call("get", p.id, "", ""), rejection |-> p.rejection]
    ELSE LET j == CreateUserRequest(r)
         IN [ok |-> j.ok, call |-> Call("post", 0, j.username, j.password),
             rejection |-> j.rejection]

\* A request no handler runs for: the router's fallback, its 405, or an
\* extractor's rejection.  The response is written at once.
Reject(t, r) ==
    LET route == get_router(r.method, r.path)
    IN /\ pc[t] = "idle"
       /\ \/ route = "not_found"
          \/ route = "method_not_allowed"
          \/ route \in {"get_user", "post_user"} /\ ~Extracted(r).ok
       /\ pc' = [pc EXCEPT ![t] = "done"]
       /\ req' = [req EXCEPT ![t] = r]
       /\ resp' = [resp EXCEPT ![t] =
                     StripBody(r.method,
                       IF route = "not_found" THEN StatusResponse(NOT_FOUND)
                       ELSE IF route = "method_not_allowed"
                       THEN StatusResponse(METHOD_NOT_ALLOWED)
                       ELSE Extracted(r).rejection)]
       /\ UNCHANGED <<users, seq, call, result, obs, created>>

\* A request routed to a handler whose extractors succeed: the handler runs
\* up to its .await.
Dispatch(t, r) ==
    LET route == get_router(r.method, r.path)
        c == Extracted(r).call
    IN /\ pc[t] = "idle"
       /\ route \in {"get_user", "post_user"}
       /\ Extracted(r).ok
       /\ pc' = [pc EXCEPT ![t] = "awaiting"]
       /\ req' = [req EXCEPT ![t] = r]
       /\ call' = [call EXCEPT ![t] = c]
       /\ obs' = [obs EXCEPT ![t] =
                    [NoObs EXCEPT
                       !.known = IF c.op = "get" /\ \E k \in created : k.id = c.id
                                 THEN (CHOOSE k \in created : k.id = c.id).username
                                 ELSE "",
                       !.peer = \E o \in Tasks \ {t} :
                                    /\ pc[o] = "awaiting"
                                    /\ c.op = "post" /\ call[o].op = "post"
                                    /\ call[o].username = c.username]]
       /\ UNCHANGED <<users, seq, result, resp, created>>

\* The repository call a suspended handler waits for, atomic in its effect.
Await(t, out, fail, wasStored) ==
    /\ out.seq <= MaxUsers + 1
    /\ users' = out.users
    /\ seq' = out.seq
    /\ result' = [result EXCEPT ![t] = out.result]
    /\ pc' = [pc EXCEPT ![t] = "returned"]
    /\ obs' = [obs EXCEPT ![t] =
                 [@ EXCEPT !.fault = fail, !.hit = wasStored,
                           !.ver = seq - 1,
                           !.delta = (out.users \ users) \cup (users \ out.users)]]
    /\ UNCHANGED <<req, call, resp, created>>

GetUserAwait(t, fail) ==
    /\ pc[t] = "awaiting"
    /\ call[t].op = "get"
    /\ Await(t, get_user_await(call[t], users, seq, fail), fail,
             call[t].id \in Ids(users))

PostUserAwait(t, fail) ==
    /\ pc[t] = "awaiting"
    /\ call[t].op = "post"
    /\ Await(t, post_user_await(call[t], users, seq, fail), fail,
             call[t].username \in Usernames(users))

\* The handler resumes and its return value becomes the response.
Respond(t) ==
    /\ pc[t] = "returned"
    /\ LET r == IF call[t].op = "get" THEN get_user(result[t])
                ELSE post_user(result[t])
       IN /\ resp' = [resp EXCEPT ![t] = StripBody(req[t].method, r)]
          /\ created' =
               IF call[t].op = "post" /\ r.status = CREATED
               THEN created \cup {[id |-> result[t].user.id,
                                   username |-> call[t].username]}
               ELSE created
    /\ pc' = [pc EXCEPT ![t] = "done"]
    /\ UNCHANGED <<users, seq, req, call, result, obs>>

\* The exchange is over; the task serves the next request.
Close(t) ==
    /\ pc[t] = "done"
    /\ pc' = [pc EXCEPT ![t] = "idle"]
    /\ req' = [req EXCEPT ![t] = NoRequest]
    /\ call' = [call EXCEPT ![t] = NoCall]
    /\ result' = [result EXCEPT ![t] = NoResult]
    /\ resp' = [resp EXCEPT ![t] = NoResponse]
    /\ obs' = [obs EXCEPT ![t] = NoObs]
    /\ UNCHANGED <<users, seq, created>>

Next ==
    \E t \in Tasks :
        \/ \E r \in Requests : Reject(t, r)
        \/ \E r \in Requests : Dispatch(t, r)
        \/ \E fail \in BOOLEAN : GetUserAwait(t, fail)
        \/ \E fail \in BOOLEAN : PostUserAwait(t, fail)
        \/ Respond(t)
        \/ Close(t)

Spec == Init /\ [][Next]_vars

(* ----------------------------------------------- vocabulary of the claims *)

Done(t) == pc[t] = "done"

\* A GET (not HEAD) request for which get_user ran.
GetRan(t) == req[t].method = "GET" /\ call[t].op = "get"
\* A POST request for which post_user ran.
PostRan(t) == req[t].method = "POST" /\ call[t].op = "post"

ClientError(status) == status \in 400..499
Success2xx(status) == status \in 200..299

NotFoundJson == <<[name |-> "message", isString |-> TRUE, text |-> "not found"]>>
InternalJson ==
    <<[name |-> "message", isString |-> TRUE, text |-> "internal server error"]>>

IsNotFoundResponse(r) ==
    r.status = 404 /\ r.content_type = "application/json" /\ r.json = NotFoundJson
IsInternalResponse(r) ==
    r.status = 500 /\ r.content_type = "application/json" /\ r.json = InternalJson

\* The two paths of the route table, read off the request alone.
IsUserIdPath(path) == Len(path) = 2 /\ path[1] = <<"users">> /\ path[2] # <<>>
IsUsersPath(path) == path = <<<<"users">>>>

\* Segments that are no signed integer.
NotIntegers == {<<"a">>, <<"1", "x">>, <<"-">>}

\* Bodies that are malformed JSON or lack a required string field.
IsBadBody(b) ==
    \/ ~b.wellformed
    \/ ~HasString(b.fields, "username")
    \/ ~HasString(b.fields, "password")

(* ------------------------------------------------------------------ C1 *)

\* C1 as stated: a POST /users with a valid pair whose username is not stored
\* answers 201, and a later GET /users/{id} with the id the creation returned
\* answers 200 with that username in the body.
C1_CreateThenGet_AsStated ==
    \A t \in Tasks : Done(t) =>
        /\ (PostRan(t) /\ ~obs[t].hit) => resp[t].status = 201
        /\ (GetRan(t) /\ obs[t].known # "") =>
               /\ resp[t].status = 200
               /\ HasField(resp[t].json, "username")
               /\ FieldText(resp[t].json, "username") = obs[t].known

\* C1, amended: the same, for requests during which the storage layer does
\* not fail: a POST /users with a valid pair and a username not stored answers
\* 201, and a later GET /users/{id} with the id assigned to the created user
\* answers 200 with a body whose username is the one posted.
C1_CreateThenGet ==
    \A t \in Tasks : (Done(t) /\ ~obs[t].fault) =>
        /\ (PostRan(t) /\ ~obs[t].hit) => resp[t].status = 201
        /\ (GetRan(t) /\ obs[t].known # "") =>
               /\ resp[t].status = 200
               /\ HasField(resp[t].json, "username")
               /\ FieldText(resp[t].json, "username") = obs[t].known

C1_Witness ==
    \E p, g \in Tasks :
        /\ Done(p) /\ PostRan(p) /\ resp[p].status = 201
        /\ Done(g) /\ GetRan(g) /\ ~obs[g].fault
        /\ call[g].id = result[p].user.id
        /\ obs[g].known = call[p].username
        /\ resp[g].status = 200
        /\ Cardinality(users) = 2

(* ------------------------------------------------------------------ C2 *)

C3_Absent_AsStated ==
    \A t \in Tasks : (Done(t) /\ GetRan(t) /\ ~obs[t].hit) =>
        IsNotFoundResponse(resp[t])

\* C3, amended: the same, unless the storage layer fails while the request is
\* served (the answer is then 500).
C3_Absent ==
    \A t \in Tasks : (Done(t) /\ GetRan(t) /\ ~obs[t].hit) =>
        IF obs[t].fault THEN resp[t].status = 500 ELSE IsNotFoundResponse(resp[t])

C3_Witness ==
    \E t \in Tasks :
        /\ Done(t) /\ GetRan(t) /\ ~obs[t].hit /\ ~obs[t].fault
        /\ users # {} /\ created # {}
        /\ IsNotFoundResponse(resp[t])

(* ------------------------------------------------------------------ C4 *)

\* C4: a GET or POST request whose handler ended in a domain error is
\* answered by that error's one mapping: NotFound as 404 with
\* {"message": "not found"}, InternalError as 500 with
\* {"message": "internal server error"}; never a 2xx, never another pair.
C4_ErrorMapping ==
    \A t \in Tasks :
        (Done(t) /\ (GetRan(t) \/ PostRan(t)) /\ ~result[t].ok) =>
            /\ result[t].err \in AppError
            /\ result[t].err = "NotFound" => IsNotFoundResponse(resp[t])
            /\ result[t].err = "InternalError" => IsInternalResponse(resp[t])
            /\ ~Success2xx(resp[t].status)

C4_Witness ==
    \E g, p \in Tasks :
        /\ Done(g) /\ GetRan(g) /\ result[g].err = "NotFound"
        /\ Done(p) /\ PostRan(p) /\ result[p].err = "InternalError"
        /\ IsNotFoundResponse(resp[g]) /\ IsInternalResponse(resp[p])

C4_WitnessGetInternal ==
    \E g \in Tasks :
        Done(g) /\ GetRan(g) /\ result[g].err = "InternalError"
                /\ IsInternalResponse(resp[g])

(* ------------------------------------------------------------------ C5 *)

\* C5: a GET /users/{id} whose {id} segment is no signed integer is answered
\* with a 4xx that is not the domain's NotFound response, and neither the
\* query handler nor the read repository runs for it.
C5_BadId ==
    \A t \in Tasks :
        (req[t].method = "GET" /\ IsUserIdPath(req[t].path)
                               /\ req[t].path[2] \in NotIntegers) =>
            /\ Done(t)
            /\ ClientError(resp[t].status)
            /\ ~IsNotFoundResponse(resp[t])
            /\ ~(resp[t].status = 404 /\ resp[t].json = NotFoundJson)
            /\ call[t] = NoCall /\ result[t] = NoResult /\ obs[t] = NoObs

C5_Witness ==
    \E t \in Tasks :
        /\ Done(t) /\ req[t].method = "GET"
        /\ req[t].path = <<<<"users">>, <<"1", "x">>>>
        /\ resp[t].status = 400
        /\ \E r \in users : r.id = 1

(* ------------------------------------------------------------------ C6 *)

IsBadPost(r) == r.method = "POST" /\ IsUsersPath(r.path) /\ IsBadBody(r.body)

Undefined(r) ==
    /\ r.method # Nil
    /\ ~(r.method = "GET" /\ IsUserIdPath(r.path))
    /\ ~(r.method = "POST" /\ IsUsersPath(r.path))

\* C7 as stated: every method/path pair other than GET /users/{id} and
\* POST /users is answered 404, runs neither handler and leaves the stored
\* users unchanged.
C7_Undefined_AsStated ==
    [][\A t \in Tasks : Undefined(req'[t]) =>
          /\ pc'[t] = "done"
          /\ resp'[t].status = 404
          /\ call'[t] = NoCall
          /\ pc[t] = "idle" => users' = users]_vars

\* C7, amended: a request whose path matches neither /users/{id} nor /users
\* is answered 404; a request whose path matches one of them but whose method
\* that route does not serve (anything but GET and HEAD on /users/{id},
\* anything but POST on /users) is answered 405; in both cases neither
\* handler runs and the stored users are unchanged.
C7_Undefined ==
    [][\A t \in Tasks :
          LET r == req'[t]
              nopath == ~IsUserIdPath(r.path) /\ ~IsUsersPath(r.path)
              nomethod == \/ IsUserIdPath(r.path) /\ r.method \notin {"GET", "HEAD"}
                          \/ IsUsersPath(r.path) /\ r.method # "POST"
          IN (r.method # Nil /\ (nopath \/ nomethod)) =>
                /\ pc'[t] = "done"
                /\ resp'[t].status = IF nopath THEN 404 ELSE 405
                /\ call'[t] = NoCall /\ result'[t] = NoResult
                /\ pc[t] = "idle" => (users' = users /\ seq' = seq)]_vars

C7_Witness ==
    \E a, b \in Tasks :
        /\ Done(a) /\ req[a].method = "GET" /\ req[a].path = <<<<"not-found">>>>
        /\ resp[a].status = 404
        /\ Done(b) /\ req[b].method = "DELETE" /\ IsUserIdPath(req[b].path)
        /\ resp[b].status = 405
        /\ users # {}

(* ------------------------------------------------------------------ C8 *)

\* Two GET requests for one id between whose repository calls nothing was
\* written.
SameRead(a, b) ==
    /\ a # b
    /\ Done(a) /\ GetRan(a)
    /\ Done(b) /\ GetRan(b)
    /\ call[a].id = call[b].id
    /\ obs[a].ver = obs[b].ver

C8_WitnessAbsent ==
    \E a, b \in Tasks :
        /\ SameRead(a, b) /\ ~obs[a].fault /\ ~obs[b].fault
        /\ users # {}
        /\ resp[a].status = 404 /\ resp[b] = resp[a]

(* ------------------------------------------------------------------ C9 *)

\* C9: a stored user is never changed or removed and ids stay unique; a
\* request answered without a handler, a GET and a POST answered 500 leave
\* the stored users as they were; a POST answered 201 added exactly one row.
C9_Frame ==
    [][/\ users \subseteq users'
       /\ \A u, v \in users' : u.id = v.id => u = v
       /\ \A t \in Tasks :
            /\ (pc[t] = "idle" /\ pc'[t] = "done") => users' = users
            /\ (pc[t] = "returned" /\ pc'[t] = "done") =>
                  IF call[t].op = "post" /\ resp'[t].status = 201
                  THEN /\ Cardinality(obs[t].delta) = 1
                       /\ obs[t].delta \subseteq users'
                       /\ \A d \in obs[t].delta : d.username = call[t].username
                  ELSE obs[t].delta = {}]_vars

C9_Witness ==
    \E p, q \in Tasks :
        /\ Done(p) /\ PostRan(p) /\ resp[p].status = 201
        /\ Done(q) /\ PostRan(q) /\ resp[q].status = 500
        /\ Cardinality(users) = 2

(* ----------------------------------------------------------------- C10 *)

\* Two POST /users with one username, in flight together, the username not
\* stored when the first save ran; both answered.
Raced(a, b) ==
    /\ a # b
    /\ Done(a) /\ PostRan(a)
    /\ Done(b) /\ PostRan(b)
    /\ call[a].username = call[b].username
    /\ obs[a].peer \/ obs[b].peer
    /\ ~obs[a].hit \/ ~obs[b].hit

Stored(name) == {r \in users : r.username = name}

====
